---- MODULE Spec2Model ----
(***************************************************************************)
(* Model of the Tekton PipelineRun reconciler                              *)
(* (controllers/tekton/pipelinerun_controller.go).                         *)
(*                                                                         *)
(* A declarative PipelineRun record is kept in the record store; the       *)
(* reconciler registers a finalizer on it, creates the derived Tekton      *)
(* PipelineRun named by spec.name in the record's namespace, and on        *)
(* deletion removes the derived resource before it removes the finalizer.  *)
(*                                                                         *)
(* Every store call of Reconcile is one step of the model, so that the     *)
(* external actor and the reconciliation of another key can interleave     *)
(* with a call.  The same key is never reconciled by two calls at once.    *)
(***************************************************************************)
EXTENDS Naturals, Sequences, FiniteSets, TLC

\* ------------------------------------------------------------------------
\* Bounds and universes
\* ------------------------------------------------------------------------

\* Number of injected store-call failures in one behaviour.
MaxFaults == 2

\* Number of actions of the external actor (record create / delete request /
\* spec change / out-of-band change of a derived resource) in one behaviour.
MaxExternal == 4

\* Number of actions of the external actor when two records are reconciled
\* in parallel.
ParExternal == 3

Namespaces == {"ci", "qa"}

\* Record keys (namespace + name); both records live in one namespace so that
\* their spec.name may collide.
Keys == {<<"ci", "run-1">>, <<"ci", "run-2">>}

\* The record followed when a single record is reconciled.
SoloKeys == {<<"ci", "run-1">>}

\* Values of spec.name (name of the derived resource).
Names == {"build-1", "build-2"}

\* Values of spec.pipelineRef.
PipelineRefs == {"tpl-a", "tpl-b"}

\* Keys of the derived-resource store.
DerivedKeys == Namespaces \X Names

\* devopsv2alpha1.PipelineRunFinalizerName
pipelineRunFinalizerName == "pipelinerun.devops.kubesphere.io"

\* A finalizer owned by some other controller.
OtherFinalizer == "other.example.io/finalizer"

\* "No such object" in the record store and in the derived-resource store.
NoRec == [absent |-> TRUE]
NoRes == [absent |-> TRUE]

\* Creator of a derived resource that no Reconcile call created.
External == <<"", "external">>

\* ------------------------------------------------------------------------
\* State
\* ------------------------------------------------------------------------

VARIABLES
    rec,        \* record store: key -> NoRec | record
    derived,    \* derived-resource store: derived key -> NoRes | resource
    pc,         \* per key: position of the Reconcile call in flight ("idle" if none)
    obj,        \* per key: the pipelineRun object held by the call (local copy)
    stale,      \* per key: the stored record changed since the call fetched it
    calls,      \* per key: outcome of each store call of the current / last call
    result,     \* per key: what the last completed call returned
    faults,     \* number of injected failures so far
    externals   \* number of external actions so far

vars == <<rec, derived, pc, obj, stale, calls, result, faults, externals>>

\* The store calls of one Reconcile, by call site.
Sites == {"get", "addUpdate", "cleanupGet", "delete", "removeUpdate", "tknGet", "create"}

NoCalls == [s \in Sites |-> "none"]

NamespaceOf(k) == k[1]

\* ------------------------------------------------------------------------
\* Pure helpers
\* ------------------------------------------------------------------------

containsString(s, x) == \E i \in DOMAIN s : s[i] = x

\* controllerutil.AddFinalizer: append unless already present.
AddFinalizer(o, f) ==
    IF containsString(o.finalizers, f) THEN o
    ELSE [o EXCEPT !.finalizers = Append(@, f)]

\* Variant: the whole finalizer list is cleared.
RemoveFinalizer_ClearAll(o, f) == [o EXCEPT !.finalizers = <<>>]

\* controllerutil.RemoveFinalizer: drop every occurrence.
RemoveFinalizer(o, f) ==
    [o EXCEPT !.finalizers = SelectSeq(@, LAMBDA x : x # f)]

IsDeleting(o) == o.deleting

\* Variant: the pipeline reference is taken from the wrong field.
TektonPipelineRun_RefFromName(namespace, spec) ==
    [key |-> <<namespace, spec.name>>, ref |-> spec.name]

\* The Tekton PipelineRun built from a PipelineRunSpec.
TektonPipelineRun(namespace, spec) ==
    [key |-> <<namespace, spec.name>>, ref |-> spec.pipelineRef]

\* ------------------------------------------------------------------------
\* Initial state: empty stores, no call in flight
\* ------------------------------------------------------------------------

EmptyObj == [finalizers |-> <<>>, deleting |-> FALSE,
             spec |-> [name |-> "build-1", pipelineRef |-> "tpl-a"]]

Init ==
    /\ rec = [k \in Keys |-> NoRec]
    /\ derived = [d \in DerivedKeys |-> NoRes]
    /\ pc = [k \in Keys |-> "idle"]
    /\ obj = [k \in Keys |-> EmptyObj]
    /\ stale = [k \in Keys |-> FALSE]
    /\ calls = [k \in Keys |-> NoCalls]
    /\ result = [k \in Keys |-> "none"]
    /\ faults = 0
    /\ externals = 0


\* ------------------------------------------------------------------------
\* Store-call outcomes.  A store call answers truthfully or fails with an
\* injected error "err" (transient I/O, permission, ...).
\* ------------------------------------------------------------------------

\* r.Get of the record.
GetOutcomes(k) == {IF rec[k] = NoRec THEN "notfound" ELSE "ok", "err"}

\* r.Update of the record: optimistic concurrency, a copy fetched before the
\* stored record changed is rejected with Conflict.
UpdateOutcomes(k) ==
    IF stale[k] \/ rec[k] = NoRec THEN {"conflict", "err"} ELSE {"ok", "err"}

\* Get of a derived resource.
LookupOutcomes(d) == {IF derived[d] = NoRes THEN "notfound" ELSE "found", "err"}

\* Create of a derived resource.
CreateOutcomes(d) == {IF derived[d] = NoRes THEN "ok" ELSE "exists", "err"}

\* Delete of a derived resource.
DeleteOutcomes(d) == {IF derived[d] = NoRes THEN "notfound" ELSE "ok", "err"}

Inject(out) ==
    IF out = "err"
    THEN faults < MaxFaults /\ faults' = faults + 1
    ELSE faults' = faults

\* ------------------------------------------------------------------------
\* Control flow of Reconcile: where the call goes after each store call.
\* "ok" and "err" are the two returns (ctrl.Result{}, nil / err).
\* ------------------------------------------------------------------------

\* Variant: the deleting branch runs cleanup without testing the finalizer.
AfterGet_DeletingAlwaysCleans(out, o) ==
    IF out = "notfound" THEN "ok"
    ELSE IF out # "ok" THEN "err"
    ELSE IF ~IsDeleting(o)
         THEN IF ~containsString(o.finalizers, pipelineRunFinalizerName)
              THEN "addUpdate"
              ELSE "tknGet"
         ELSE "cleanupGet"

\* Variant: the NotFound of the record is returned as an error.
AfterGet_NotFoundIsError(out, o) ==
    IF out # "ok" THEN "err"
    ELSE IF ~IsDeleting(o)
         THEN IF ~containsString(o.finalizers, pipelineRunFinalizerName)
              THEN "addUpdate"
              ELSE "tknGet"
         ELSE IF containsString(o.finalizers, pipelineRunFinalizerName)
              THEN "cleanupGet"
              ELSE "ok"

\* After r.Get of the record: IgnoreNotFound, then the branch on
\* DeletionTimestamp and on the presence of the finalizer.
AfterGet(out, o) ==
    IF out = "notfound" THEN "ok"
    ELSE IF out # "ok" THEN "err"
    ELSE IF ~IsDeleting(o)
         THEN IF ~containsString(o.finalizers, pipelineRunFinalizerName)
              THEN "addUpdate"
              ELSE "tknGet"
         ELSE IF containsString(o.finalizers, pipelineRunFinalizerName)
              THEN "cleanupGet"
              ELSE "ok"

\* Variant: the error of the Update is not checked.
AfterAddUpdate_Unchecked(out) == "tknGet"

\* Variant: the call returns once the finalizer is registered.
AfterAddUpdate_ReturnEarly(out) == IF out = "ok" THEN "ok" ELSE "err"

\* After the Update that registers the finalizer.
AfterAddUpdate(out) == IF out = "ok" THEN "tknGet" ELSE "err"

\* Variant: cleanup returns nil without issuing the Delete.
AfterCleanupGet_SkipDelete(out) == "removeUpdate"

\* Variant: a lookup that does not find the resource fails cleanup.
AfterCleanupGet_AbsentIsError(out) == IF out = "found" THEN "delete" ELSE "err"

\* deleteExternalResources, after the lookup: any error of the lookup is
\* taken as "does not exist" and cleanup returns nil.
AfterCleanupGet(out) == IF out = "found" THEN "delete" ELSE "removeUpdate"

\* Variant: the error of the Delete is not returned.
AfterDelete_Unchecked(out) == "removeUpdate"

\* deleteExternalResources, after the Delete.
AfterDelete(out) == IF out = "ok" THEN "removeUpdate" ELSE "err"

\* Variant: the deleting branch does not return and falls through to the
\* creation step.
AfterRemoveUpdate_FallThrough(out) == IF out = "ok" THEN "tknGet" ELSE "err"

\* Variant: the error of the Update that removes the finalizer is dropped.
AfterRemoveUpdate_Unchecked(out) == "ok"

\* After the Update that removes the finalizer.
AfterRemoveUpdate(out) == IF out = "ok" THEN "ok" ELSE "err"

\* reconcileTektonPipelineRun, after the lookup: any error of the lookup is
\* taken as "does not exist" and the resource is created.
AfterTknGet(out) == IF out = "found" THEN "ok" ELSE "create"

\* reconcileTektonPipelineRun, after the Create.
AfterCreate(out) == IF out = "ok" THEN "ok" ELSE "err"

Goto(k, nxt) ==
    IF nxt \in {"ok", "err"}
    THEN /\ pc' = [pc EXCEPT ![k] = "idle"]
         /\ result' = [result EXCEPT ![k] = nxt]
    ELSE /\ pc' = [pc EXCEPT ![k] = nxt]
         /\ result' = [result EXCEPT ![k] = "none"]

\* Variant: cleanup addresses a fixed namespace, not the record's.
CleanupKey_FixedNamespace(k) == <<"qa", obj[k].spec.name>>

\* deleteExternalResources: the Tekton PipelineRun named by Spec.Name in the
\* namespace of the record.
CleanupKey(k) == <<NamespaceOf(k), obj[k].spec.name>>

\* reconcileTektonPipelineRun: the NamespacedName that is looked up.
TknKey(k) == <<NamespaceOf(k), obj[k].spec.name>>

\* ------------------------------------------------------------------------
\* Steps of Reconcile(k)
\* ------------------------------------------------------------------------

\* Reconcile is invoked for k (also spuriously) and fetches the record.
GetRecord(k) ==
    /\ pc[k] = "idle"
    /\ \E out \in GetOutcomes(k) :
        /\ Inject(out)
        /\ calls' = [calls EXCEPT ![k] = [NoCalls EXCEPT !["get"] = out]]
        /\ obj' = [obj EXCEPT ![k] = IF out = "ok" THEN rec[k] ELSE EmptyObj]
        /\ stale' = [stale EXCEPT ![k] = FALSE]
        /\ Goto(k, AfterGet(out, rec[k]))
    /\ UNCHANGED <<rec, derived, externals>>

\* Active record without the finalizer: AddFinalizer, then Update.
AddFinalizerUpdate(k) ==
    /\ pc[k] = "addUpdate"
    /\ LET o == AddFinalizer(obj[k], pipelineRunFinalizerName) IN
       \E out \in UpdateOutcomes(k) :
        /\ Inject(out)
        /\ calls' = [calls EXCEPT ![k]["addUpdate"] = out]
        /\ obj' = [obj EXCEPT ![k] = o]
        /\ rec' = IF out = "ok" THEN [rec EXCEPT ![k] = o] ELSE rec
        /\ Goto(k, AfterAddUpdate(out))
    /\ UNCHANGED <<derived, stale, externals>>

\* deleteExternalResources: look the derived resource up.
CleanupGet(k) ==
    /\ pc[k] = "cleanupGet"
    /\ \E out \in LookupOutcomes(CleanupKey(k)) :
        /\ Inject(out)
        /\ calls' = [calls EXCEPT ![k]["cleanupGet"] = out]
        /\ Goto(k, AfterCleanupGet(out))
    /\ UNCHANGED <<rec, derived, obj, stale, externals>>

\* deleteExternalResources: delete the derived resource.
CleanupDelete(k) ==
    /\ pc[k] = "delete"
    /\ LET d == CleanupKey(k) IN
       \E out \in DeleteOutcomes(d) :
        /\ Inject(out)
        /\ calls' = [calls EXCEPT ![k]["delete"] = out]
        /\ derived' = IF out = "ok" THEN [derived EXCEPT ![d] = NoRes] ELSE derived
        /\ Goto(k, AfterDelete(out))
    /\ UNCHANGED <<rec, obj, stale, externals>>

\* Deleting record, cleanup returned nil: RemoveFinalizer, then Update.
RemoveFinalizerUpdate(k) ==
    /\ pc[k] = "removeUpdate"
    /\ LET o == RemoveFinalizer(obj[k], pipelineRunFinalizerName) IN
       \E out \in UpdateOutcomes(k) :
        /\ Inject(out)
        /\ calls' = [calls EXCEPT ![k]["removeUpdate"] = out]
        /\ obj' = [obj EXCEPT ![k] = o]
        /\ rec' = IF out = "ok" THEN [rec EXCEPT ![k] = o] ELSE rec
        /\ Goto(k, AfterRemoveUpdate(out))
    /\ UNCHANGED <<derived, stale, externals>>

\* reconcileTektonPipelineRun: look the Tekton PipelineRun up.
TknGet(k) ==
    /\ pc[k] = "tknGet"
    /\ \E out \in LookupOutcomes(TknKey(k)) :
        /\ Inject(out)
        /\ calls' = [calls EXCEPT ![k]["tknGet"] = out]
        /\ Goto(k, AfterTknGet(out))
    /\ UNCHANGED <<rec, derived, obj, stale, externals>>

\* Variant: the Tekton PipelineRun is written whether or not it exists.
TknCreate_Upsert(k) ==
    /\ pc[k] = "create"
    /\ LET t == TektonPipelineRun(NamespaceOf(k), obj[k].spec) IN
       \E out \in CreateOutcomes(t.key) :
        /\ Inject(out)
        /\ calls' = [calls EXCEPT ![k]["create"] = out]
        /\ derived' = IF out \in {"ok", "exists"}
                      THEN [derived EXCEPT ![t.key] = [ref |-> t.ref, by |-> k]]
                      ELSE derived
        /\ Goto(k, AfterCreate(out))
    /\ UNCHANGED <<rec, obj, stale, externals>>

\* reconcileTektonPipelineRun: build the Tekton PipelineRun and create it.
TknCreate(k) ==
    /\ pc[k] = "create"
    /\ LET t == TektonPipelineRun(NamespaceOf(k), obj[k].spec) IN
       \E out \in CreateOutcomes(t.key) :
        /\ Inject(out)
        /\ calls' = [calls EXCEPT ![k]["create"] = out]
        /\ derived' = IF out = "ok"
                      THEN [derived EXCEPT ![t.key] = [ref |-> t.ref, by |-> k]]
                      ELSE derived
        /\ Goto(k, AfterCreate(out))
    /\ UNCHANGED <<rec, obj, stale, externals>>

Reconcile(k) ==
    \/ GetRecord(k)
    \/ AddFinalizerUpdate(k)
    \/ CleanupGet(k)
    \/ CleanupDelete(k)
    \/ RemoveFinalizerUpdate(k)
    \/ TknGet(k)
    \/ TknCreate(k)

\* ------------------------------------------------------------------------
\* The environment: the external actor and the store
\* ------------------------------------------------------------------------

ExternalStep == externals < MaxExternal /\ externals' = externals + 1

\* An external actor creates the record.
CreateRecord(k) ==
    /\ rec[k] = NoRec
    /\ ExternalStep
    /\ \E n \in Names, p \in PipelineRefs, fs \in {<<>>, <<OtherFinalizer>>} :
        rec' = [rec EXCEPT ![k] = [finalizers |-> fs, deleting |-> FALSE,
                                   spec |-> [name |-> n, pipelineRef |-> p]]]
    /\ stale' = [stale EXCEPT ![k] = TRUE]
    /\ UNCHANGED <<derived, pc, obj, calls, result, faults>>

\* An external delete request sets the deletion timestamp.
DeleteRequest(k) ==
    /\ rec[k] # NoRec
    /\ ~rec[k].deleting
    /\ ExternalStep
    /\ rec' = [rec EXCEPT ![k].deleting = TRUE]
    /\ stale' = [stale EXCEPT ![k] = TRUE]
    /\ UNCHANGED <<derived, pc, obj, calls, result, faults>>

\* An external actor changes the spec of an active record: spec.pipelineRef
\* or spec.name (no field of the spec is immutable).
UpdateSpec(k) ==
    /\ rec[k] # NoRec
    /\ ~rec[k].deleting
    /\ ExternalStep
    /\ \/ \E p \in PipelineRefs \ {rec[k].spec.pipelineRef} :
            rec' = [rec EXCEPT ![k].spec.pipelineRef = p]
       \/ \E n \in Names \ {rec[k].spec.name} :
            rec' = [rec EXCEPT ![k].spec.name = n]
    /\ stale' = [stale EXCEPT ![k] = TRUE]
    /\ UNCHANGED <<derived, pc, obj, calls, result, faults>>

\* Another controller removes its own finalizer from a deleting record.
RemoveOtherFinalizer(k) ==
    /\ rec[k] # NoRec
    /\ rec[k].deleting
    /\ containsString(rec[k].finalizers, OtherFinalizer)
    /\ rec' = [rec EXCEPT ![k] = RemoveFinalizer(@, OtherFinalizer)]
    /\ stale' = [stale EXCEPT ![k] = TRUE]
    /\ UNCHANGED <<derived, pc, obj, calls, result, faults, externals>>

\* The store purges a deleting record whose finalizer list is empty.
Purge(k) ==
    /\ rec[k] # NoRec
    /\ rec[k].deleting
    /\ rec[k].finalizers = <<>>
    /\ rec' = [rec EXCEPT ![k] = NoRec]
    /\ stale' = [stale EXCEPT ![k] = TRUE]
    /\ UNCHANGED <<derived, pc, obj, calls, result, faults, externals>>

\* A derived resource appears out-of-band.
ExternalCreateDerived(d) ==
    /\ derived[d] = NoRes
    /\ ExternalStep
    /\ \E p \in PipelineRefs :
        derived' = [derived EXCEPT ![d] = [ref |-> p, by |-> External]]
    /\ UNCHANGED <<rec, pc, obj, stale, calls, result, faults>>

\* A derived resource is removed out-of-band.
ExternalDeleteDerived(d) ==
    /\ derived[d] # NoRes
    /\ ExternalStep
    /\ derived' = [derived EXCEPT ![d] = NoRes]
    /\ UNCHANGED <<rec, pc, obj, stale, calls, result, faults>>

Environment(K) ==
    \/ \E k \in K : CreateRecord(k)
    \/ \E k \in K : DeleteRequest(k)
    \/ \E k \in K : UpdateSpec(k)
    \/ \E k \in K : RemoveOtherFinalizer(k)
    \/ \E k \in K : Purge(k)
    \/ \E d \in DerivedKeys : ExternalCreateDerived(d)
    \/ \E d \in DerivedKeys : ExternalDeleteDerived(d)

\* One record is reconciled; whatever the reconciliation of another record
\* may do to the derived-resource store is among the out-of-band changes.
Next ==
    \/ \E k \in SoloKeys : Reconcile(k)
    \/ Environment(SoloKeys)

Spec == Init /\ [][Next]_vars

\* ------------------------------------------------------------------------
\* Type invariant
\* ------------------------------------------------------------------------

TypeOK ==
    /\ \A k \in Keys :
        /\ pc[k] \in {"idle"} \cup (Sites \ {"get"})
        /\ result[k] \in {"none", "ok", "err"}
        /\ stale[k] \in BOOLEAN
        /\ calls[k] \in [Sites -> {"none", "ok", "err", "notfound", "found",
                                   "exists", "conflict"}]
    /\ faults \in 0..MaxFaults
    /\ externals \in 0..MaxExternal


\* ------------------------------------------------------------------------
\* Properties
\* ------------------------------------------------------------------------

\* The stored record of k carries the finalizer of this controller.
StoredFinalizer(k) ==
    /\ rec[k] # NoRec
    /\ containsString(rec[k].finalizers, pipelineRunFinalizerName)

\* The record fetched by the current / last call of k was active and already
\* carried the finalizer.
FetchedActiveWithFinalizer(k) ==
    /\ calls[k]["get"] = "ok"
    /\ calls[k]["addUpdate"] = "none"
    /\ ~IsDeleting(obj[k])
    /\ containsString(obj[k].finalizers, pipelineRunFinalizerName)

\* The record fetched by the current / last call of k was deleting and
\* carried the finalizer.
FetchedDeletingWithFinalizer(k) ==
    /\ calls[k]["get"] = "ok"
    /\ IsDeleting(obj[k])
    /\ \/ containsString(obj[k].finalizers, pipelineRunFinalizerName)
       \/ calls[k]["removeUpdate"] # "none"

\* C1: whenever a call is about to issue, or has issued, the Create of the
\* derived resource, the stored record carries the finalizer; a call whose
\* finalizer Update failed attempts neither the lookup nor the Create.
C1_FinalizerBeforeCreate ==
    \A k \in Keys :
        /\ (pc[k] = "create" \/ calls[k]["create"] # "none") => StoredFinalizer(k)
        /\ calls[k]["addUpdate"] \in {"err", "conflict"} =>
              /\ pc[k] = "idle"
              /\ calls[k]["tknGet"] = "none"
              /\ calls[k]["create"] = "none"

\* C1 witness: a call that registered the finalizer is about to issue Create.
C1_Witness ==
    \E k \in Keys : pc[k] = "create" /\ calls[k]["addUpdate"] = "ok"


\* The derived resource named by the record the call of k holds, if it was
\* created on behalf of k.
OwnDerivedPresent(k) ==
    LET d == <<NamespaceOf(k), obj[k].spec.name>> IN
    /\ derived[d] # NoRes
    /\ derived[d].by = k

\* C2: once a call has removed the finalizer of a deleting record, no derived
\* resource created for that record is left under the record's spec.name in
\* the record's namespace.
C2_DerivedNeverOutlivesRecord ==
    \A k \in Keys :
        calls[k]["removeUpdate"] = "ok" => ~OwnDerivedPresent(k)

\* C3 as stated: a call that registers the finalizer creates no derived
\* resource in that same call.
C3_NoCreateInMarkerCall ==
    \A k \in Keys :
        calls[k]["addUpdate"] = "ok" => calls[k]["create"] # "ok"

\* C3 as amended: a call that registers the finalizer leaves it on the stored
\* record and goes on, in that same call, to look the derived resource up and
\* to issue its Create when the lookup does not find it.
C3_MarkerThenCreateInSameCall ==
    \A k \in Keys :
        calls[k]["addUpdate"] = "ok" =>
            /\ StoredFinalizer(k)
            /\ pc[k] \in {"tknGet", "create", "idle"}
            /\ pc[k] = "idle" => calls[k]["tknGet"] # "none"
            /\ (pc[k] = "idle" /\ calls[k]["tknGet"] # "found") =>
                   calls[k]["create"] # "none"

\* C3 witness: one call registered the finalizer and created the resource.
C3_Witness ==
    \E k \in Keys :
        /\ pc[k] = "idle"
        /\ calls[k]["addUpdate"] = "ok"
        /\ calls[k]["create"] = "ok"
        /\ result[k] = "ok"

\* C4: for an active record with the finalizer and no derived resource, the
\* call goes from the lookup to the Create, and a successful Create adds
\* exactly one resource: in the record's namespace, named spec.name, with
\* reference spec.pipelineRef; nothing else changes and the call returns nil.
C4_CreatesExactlyOne ==
    [][\A k \in Keys :
        LET d == <<NamespaceOf(k), obj[k].spec.name>> IN
        /\ (FetchedActiveWithFinalizer(k) /\ pc[k] = "tknGet"
                /\ calls'[k]["tknGet"] = "notfound") => pc'[k] = "create"
        /\ (FetchedActiveWithFinalizer(k) /\ pc[k] = "create"
                /\ calls'[k]["create"] = "ok") =>
              /\ derived[d] = NoRes
              /\ derived' = [derived EXCEPT
                                ![d] = [ref |-> obj[k].spec.pipelineRef, by |-> k]]
              /\ ~stale[k] => derived'[d].ref = rec[k].spec.pipelineRef
              /\ Cardinality({e \in DerivedKeys : derived'[e] # NoRes})
                    = Cardinality({e \in DerivedKeys : derived[e] # NoRes}) + 1
              /\ rec' = rec
              /\ pc'[k] = "idle"
              /\ result'[k] = "ok"
      ]_vars

\* C4 witness: such a call has completed.
C4_Witness ==
    \E k \in Keys :
        /\ pc[k] = "idle"
        /\ FetchedActiveWithFinalizer(k)
        /\ calls[k]["tknGet"] = "notfound"
        /\ calls[k]["create"] = "ok"
        /\ result[k] = "ok"
        /\ OwnDerivedPresent(k)

\* C5: a call on an active record with the finalizer whose derived resource
\* exists (created by an earlier call) issues no Create and returns nil,
\* whatever the lookup answered.
C5_ExistingIsNoOp ==
    \A k \in Keys :
        ( /\ pc[k] = "idle"
          /\ FetchedActiveWithFinalizer(k)
          /\ OwnDerivedPresent(k)
          /\ calls[k]["create"] # "ok" ) =>
            /\ result[k] = "ok"
            /\ calls[k]["create"] = "none"


\* The store calls of the current / last call of k that did not succeed.
FailedSites(k) ==
    {s \in Sites : calls[k][s] \in {"err", "conflict", "exists"}}
        \cup {s \in {"delete"} : calls[k][s] = "notfound"}

\* The record fetched by the current / last call of k was deleting and did
\* not carry the finalizer.
FetchedDeletingWithoutFinalizer(k) ==
    /\ calls[k]["get"] = "ok"
    /\ IsDeleting(obj[k])
    /\ ~containsString(obj[k].finalizers, pipelineRunFinalizerName)
    /\ calls[k]["removeUpdate"] = "none"

\* C6: on a deleting record with the finalizer, the finalizer stays on the
\* stored record while cleanup runs; the Update that removes it is issued
\* only after the lookup and, when the resource was found, its Delete; a
\* call whose store calls all succeed ends with the resource of the record
\* gone, the finalizer removed and nil returned; a call that fetches the
\* record after the finalizer is gone issues no further store call and
\* returns nil.
C6_DeleteThenRemoveFinalizer ==
    \A k \in Keys :
        /\ pc[k] \in {"cleanupGet", "delete"} => StoredFinalizer(k)
        /\ calls[k]["removeUpdate"] # "none" =>
              \/ calls[k]["cleanupGet"] = "found" /\ calls[k]["delete"] = "ok"
              \/ calls[k]["cleanupGet"] \in {"notfound", "err"}
                    /\ calls[k]["delete"] = "none"
        /\ ( /\ pc[k] = "idle"
             /\ FetchedDeletingWithFinalizer(k)
             /\ FailedSites(k) = {} ) =>
              /\ calls[k]["removeUpdate"] = "ok"
              /\ calls[k]["cleanupGet"] = "found" => calls[k]["delete"] = "ok"
              /\ ~OwnDerivedPresent(k)
              /\ ~StoredFinalizer(k)
              /\ result[k] = "ok"
        /\ FetchedDeletingWithoutFinalizer(k) =>
              /\ pc[k] = "idle"
              /\ \A s \in Sites \ {"get"} : calls[k][s] = "none"
              /\ result[k] = "ok"

\* C6 witness: a call deleted the derived resource, then removed the finalizer.
C6_Witness ==
    \E k \in Keys :
        /\ pc[k] = "idle"
        /\ FetchedDeletingWithFinalizer(k)
        /\ calls[k]["cleanupGet"] = "found"
        /\ calls[k]["delete"] = "ok"
        /\ calls[k]["removeUpdate"] = "ok"
        /\ result[k] = "ok"

\* C7: on a deleting record with the finalizer whose derived resource is
\* absent, the call issues no Delete and goes on to the Update that removes
\* the finalizer; when that Update succeeds the call returns nil and the
\* finalizer is gone from the stored record.
C7_AbsentDerivedStillFinalizes ==
    \A k \in Keys :
        (FetchedDeletingWithFinalizer(k) /\ calls[k]["cleanupGet"] = "notfound") =>
            /\ calls[k]["delete"] = "none"
            /\ pc[k] \in {"removeUpdate", "idle"}
            /\ pc[k] = "idle" =>
                  /\ calls[k]["removeUpdate"] # "none"
                  /\ calls[k]["removeUpdate"] = "ok" =>
                        /\ result[k] = "ok"
                        /\ ~StoredFinalizer(k)

\* C7 witness: cleanup found nothing and the finalizer was removed.
C7_Witness ==
    \E k \in Keys :
        /\ pc[k] = "idle"
        /\ FetchedDeletingWithFinalizer(k)
        /\ calls[k]["cleanupGet"] = "notfound"
        /\ calls[k]["removeUpdate"] = "ok"
        /\ result[k] = "ok"
        /\ ~StoredFinalizer(k)

\* C8: when the Delete of the derived resource fails, the call returns the
\* error, issues no Update and the stored record keeps the finalizer; the
\* Update that removes the finalizer is issued only in a call whose cleanup
\* returned nil.
C8_FailedCleanupKeepsFinalizer ==
    \A k \in Keys :
        /\ calls[k]["delete"] \in {"err", "notfound"} =>
              /\ pc[k] = "idle"
              /\ result[k] = "err"
              /\ calls[k]["removeUpdate"] = "none"
              /\ StoredFinalizer(k)
        /\ (pc[k] = "removeUpdate" \/ calls[k]["removeUpdate"] # "none") =>
              /\ calls[k]["cleanupGet"] # "none"
              /\ calls[k]["delete"] \in {"none", "ok"}

\* C8 witness: a Delete failed and the call returned the error.
C8_Witness ==
    \E k \in Keys :
        /\ pc[k] = "idle"
        /\ calls[k]["delete"] = "err"
        /\ result[k] = "err"
        /\ StoredFinalizer(k)

\* C9: a Create answered AlreadyExists and a Delete answered NotFound are
\* treated as success: the call does not return an error.
C9_ToleratesExistsAndAbsent ==
    \A k \in Keys :
        ( /\ pc[k] = "idle"
          /\ \/ calls[k]["create"] = "exists"
             \/ calls[k]["delete"] = "notfound" ) => result[k] = "ok"

\* C10: a store call that fails with an error other than NotFound makes the
\* call return an error.
C10_NoErrorSwallowed ==
    \A k \in Keys :
        ( /\ pc[k] = "idle"
          /\ \E s \in Sites : calls[k][s] \in {"err", "conflict"} ) =>
            result[k] = "err"


\* C11: when the record does not exist the call returns nil after the Get,
\* without any further store call (so without a write to either store); any
\* other error of the Get is returned, again without a further store call.
C11_MissingRecordIsSuccess ==
    \A k \in Keys :
        /\ calls[k]["get"] = "notfound" =>
              /\ pc[k] = "idle"
              /\ result[k] = "ok"
              /\ \A s \in Sites \ {"get"} : calls[k][s] = "none"
        /\ calls[k]["get"] = "err" =>
              /\ pc[k] = "idle"
              /\ result[k] = "err"
              /\ \A s \in Sites \ {"get"} : calls[k][s] = "none"

\* C11 witness: a call found no record and returned nil, leaving a derived
\* resource in the store as it was.
C11_Witness ==
    \E k \in Keys :
        /\ pc[k] = "idle"
        /\ calls[k]["get"] = "notfound"
        /\ result[k] = "ok"
        /\ rec[k] = NoRec
        /\ \E d \in DerivedKeys : derived[d] # NoRes

\* The call of k in flight, or the last one, had an Update answered Conflict.
UpdateConflicted(k) ==
    \/ calls[k]["addUpdate"] = "conflict"
    \/ calls[k]["removeUpdate"] = "conflict"

\* C12: an Update answered Conflict (or failing otherwise) ends the call with
\* an error and without a lookup or Create of the derived resource; the next
\* call for the key starts from a fresh Get of the stored record, so its
\* Update is not rejected for the earlier conflict; an Update that succeeds
\* leaves the finalizer as intended (present after the add, gone after the
\* removal).
C12_ConflictIsRetried ==
    /\ [](\A k \in Keys :
            /\ UpdateConflicted(k) =>
                  /\ pc[k] = "idle"
                  /\ result[k] = "err"
                  /\ calls[k]["tknGet"] = "none"
                  /\ calls[k]["create"] = "none"
            /\ calls[k]["addUpdate"] = "ok" => StoredFinalizer(k)
            /\ calls[k]["removeUpdate"] = "ok" => ~StoredFinalizer(k)
            /\ (pc[k] \in {"addUpdate", "removeUpdate"} /\ ~stale[k]) =>
                  /\ rec[k] # NoRec
                  /\ rec[k].finalizers = obj[k].finalizers
                  /\ "conflict" \notin UpdateOutcomes(k))
    /\ [][\A k \in Keys :
            (UpdateConflicted(k) /\ calls'[k] # calls[k]) =>
                /\ calls'[k]["get"] # "none"
                /\ ~stale'[k]
                /\ calls'[k]["get"] = "ok" => obj'[k] = rec[k]
                /\ calls'[k]["addUpdate"] = "none"
                /\ calls'[k]["removeUpdate"] = "none"
       ]_vars

\* C12 witness: the Update that registers the finalizer was answered Conflict
\* and the call returned the error.
C12_Witness ==
    \E k \in Keys :
        /\ pc[k] = "idle"
        /\ calls[k]["addUpdate"] = "conflict"
        /\ result[k] = "err"
        /\ rec[k] # NoRec


\* The derived resources present in the store that were created on behalf
\* of the record of k.
DerivedOf(k) ==
    {d \in DerivedKeys : derived[d] # NoRes /\ derived[d].by = k}

\* C13: at most one derived resource created on behalf of a record is
\* present, and a Create is issued only when the lookup did not return an
\* existing resource.
C13_AtMostOneDerived ==
    \A k \in Keys :
        /\ Cardinality(DerivedOf(k)) <= 1
        /\ (pc[k] = "create" \/ calls[k]["create"] # "none") =>
              calls[k]["tknGet"] \in {"notfound", "err"}


\* ------------------------------------------------------------------------
\* Scheduling: the external scheduler re-invokes Reconcile for a key after
\* every error return and on every change of the record, and a call in
\* flight runs to its return.  Injected failures are finite (MaxFaults).
\* ------------------------------------------------------------------------

SpecFair == Spec /\ \A k \in SoloKeys : WF_vars(Reconcile(k))

\* C14: a deleting record that carries the finalizer eventually has the
\* finalizer removed with no derived resource of the record left.
C14_NoStuckFinalizer ==
    \A k \in SoloKeys :
        (rec[k] # NoRec /\ rec[k].deleting /\ StoredFinalizer(k))
            ~> (~StoredFinalizer(k) /\ DerivedOf(k) = {})


\* ------------------------------------------------------------------------
\* Two records reconciled in parallel: the steps of the two calls interleave.
\* Every store call has the outcome the store contents determine (no failure
\* is injected): what one call meets is the work of the other call and of
\* the external actor.
\* ------------------------------------------------------------------------

NextPar ==
    /\ \/ \E k \in Keys : Reconcile(k)
       \/ Environment(Keys)
    /\ faults' = faults
    /\ externals' <= ParExternal

SpecPar == Init /\ [][NextPar]_vars


\* The call of k makes a step.
Stepped(k) == pc'[k] # pc[k] \/ calls'[k] # calls[k]

\* C15 as stated: the reconciliation of a record never deletes a derived
\* resource created for another record, is never kept from creating by one,
\* and never fails because of one.
C15_IndependentOfOtherRecords ==
    [][\A k \in Keys :
        /\ (pc[k] = "delete" /\ calls'[k]["delete"] = "ok") =>
              derived[CleanupKey(k)].by \notin Keys \ {k}
        /\ (pc[k] = "tknGet" /\ calls'[k]["tknGet"] = "found") =>
              derived[TknKey(k)].by \notin Keys \ {k}
        /\ (pc[k] = "create" /\ calls'[k]["create"] = "exists") =>
              derived[TknKey(k)].by \notin Keys \ {k}
      ]_vars

\* C15 as amended: a step of the call for k changes no record but k's, and
\* there only the finalizer list; it changes the derived-resource store only
\* under the key (namespace of k, spec.name of the record of k); it leaves
\* the call of every other key as it is.
C15_ScopedToOwnKeys ==
    [][\A k \in Keys :
        Stepped(k) =>
            /\ \A j \in Keys \ {k} :
                  /\ rec'[j] = rec[j]
                  /\ pc'[j] = pc[j]
                  /\ obj'[j] = obj[j]
                  /\ calls'[j] = calls[j]
                  /\ result'[j] = result[j]
                  /\ stale'[j] = stale[j]
            /\ rec'[k] # rec[k] =>
                  /\ rec[k] # NoRec
                  /\ rec'[k] # NoRec
                  /\ rec'[k].spec = rec[k].spec
                  /\ rec'[k].deleting = rec[k].deleting
            /\ \A d \in DerivedKeys \ {<<NamespaceOf(k), obj[k].spec.name>>} :
                  derived'[d] = derived[d]
      ]_vars

\* C15 witness: the cleanup of one record is about to delete the derived
\* resource that was created for another record with the same spec.name.
C15_Witness ==
    \E k \in Keys : \E j \in Keys \ {k} :
        /\ pc[k] = "delete"
        /\ pc[j] # "idle"
        /\ derived[CleanupKey(k)] # NoRes
        /\ derived[CleanupKey(k)].by = j


C17_DeletingWithoutFinalizerIsNoOp ==
    [][\A k \in Keys :
        ( /\ pc[k] = "idle"
          /\ Stepped(k)
          /\ calls'[k]["get"] = "ok"
          /\ rec[k].deleting
          /\ ~containsString(rec[k].finalizers, pipelineRunFinalizerName) ) =>
            /\ pc'[k] = "idle"
            /\ result'[k] = "ok"
            /\ \A s \in Sites \ {"get"} : calls'[k][s] = "none"
            /\ rec' = rec
            /\ derived' = derived
      ]_vars

\* C17 witness: such a call returned nil while a derived resource under the
\* record's spec.name is still in the store.
C17_Witness ==
    \E k \in Keys :
        /\ pc[k] = "idle"
        /\ FetchedDeletingWithoutFinalizer(k)
        /\ result[k] = "ok"
        /\ rec[k] # NoRec
        /\ derived[<<NamespaceOf(k), obj[k].spec.name>>] # NoRes

\* C18: a derived resource that exists is never changed in place; a step of
\* a call changes the derived-resource store only by a Create of a resource
\* that is absent (after a lookup that did not find it) or by the Delete of
\* cleanup on a deleting record.
C18_NeverUpdatedInPlace ==
    [][/\ \A d \in DerivedKeys :
            (derived[d] # NoRes /\ derived'[d] # NoRes) => derived'[d] = derived[d]
       /\ \A k \in Keys :
            (Stepped(k) /\ derived' # derived) =>
                \/ /\ pc[k] = "create"
                   /\ calls[k]["tknGet"] \in {"notfound", "err"}
                   /\ derived[TknKey(k)] = NoRes
                   /\ derived'[TknKey(k)] # NoRes
                \/ /\ pc[k] = "delete"
                   /\ IsDeleting(obj[k])
                   /\ calls[k]["cleanupGet"] = "found"
                   /\ derived'[CleanupKey(k)] = NoRes
      ]_vars

\* C18 witness: a call saw the changed pipelineRef of the record, found the
\* derived resource and left it with the old reference.
C18_Witness ==
    \E k \in Keys :
        /\ pc[k] = "idle"
        /\ FetchedActiveWithFinalizer(k)
        /\ calls[k]["tknGet"] = "found"
        /\ result[k] = "ok"
        /\ OwnDerivedPresent(k)
        /\ derived[TknKey(k)].ref # obj[k].spec.pipelineRef

\* Number of occurrences of this controller's finalizer in a finalizer list.
MarkerCount(fs) == Len(SelectSeq(fs, LAMBDA x : x = pipelineRunFinalizerName))

\* The finalizers of other owners in a finalizer list, in order.
OtherMarkers(fs) == SelectSeq(fs, LAMBDA x : x # pipelineRunFinalizerName)

\* C19: the finalizer of this controller occurs at most once in the stored
\* finalizer list; a call changes the list only by appending the finalizer
\* when it is absent or by removing it, and leaves the other finalizers as
\* they are.
C19_FinalizerAtMostOnce ==
    /\ [](\A k \in Keys : rec[k] # NoRec => MarkerCount(rec[k].finalizers) <= 1)
    /\ [][\A k \in Keys :
            (Stepped(k) /\ rec'[k] # rec[k]) =>
                /\ rec[k] # NoRec
                /\ rec'[k] # NoRec
                /\ OtherMarkers(rec'[k].finalizers) = OtherMarkers(rec[k].finalizers)
                /\ \/ /\ pc[k] = "addUpdate"
                      /\ MarkerCount(rec[k].finalizers) = 0
                      /\ rec'[k].finalizers =
                            Append(rec[k].finalizers, pipelineRunFinalizerName)
                   \/ /\ pc[k] = "removeUpdate"
                      /\ MarkerCount(rec'[k].finalizers) = 0
       ]_vars

\* C19 witness: the finalizer was removed from a record that carries another
\* finalizer, which is still there.
C19_Witness ==
    \E k \in Keys :
        /\ pc[k] = "idle"
        /\ calls[k]["removeUpdate"] = "ok"
        /\ rec[k] # NoRec
        /\ rec[k].finalizers = <<OtherFinalizer>>

====
